---- MODULE Spec2Model ----
(***************************************************************************)
(* Library Management System: BookManager (book.py), UserManager (user.py), *)
(* CheckoutManager (check.py) over StorageManager (storage.py).             *)
(* The three managers keep an in-memory list each and rewrite their JSON    *)
(* file in full on every successful mutation.                               *)
(***************************************************************************)
EXTENDS Integers, Sequences, FiniteSets, TLC

VARIABLES
    books,          \* BookManager.books: list of Book objects
    users,          \* UserManager.users: list of User objects
    checkouts,      \* CheckoutManager.checkouts: list of CheckoutRecord objects
    booksFile,      \* contents of books.json
    usersFile,      \* contents of users.json
    checkoutsFile,  \* contents of checkouts.json
    lastOp,         \* name of the manager method that returned last
    ret,            \* the boolean that method returned
    line            \* source line of the return statement it executed

vars == <<books, users, checkouts, booksFile, usersFile, checkoutsFile,
          lastOp, ret, line>>

\* a method returns: its name, its result and the return statement reached
Return(name, value, at) == lastOp' = name /\ ret' = value /\ line' = at

----------------------------------------------------------------------------
(* Bounds and input domains *)

MaxBooks == 4
MaxUsers == 2
MaxLedger == 4

Titles == {"Dune", "Emma"}
Authors == {"Herbert", "Austen"}
Isbns == {"111", "222"}
Names == {"Ann", "Bob"}
UserIds == {"u1", "u2"}

\* one spelling of title and author, where the fields of a Book do not matter
CapTitles == {"Dune"}
CapAuthors == {"Herbert"}
\* four books and two borrowers, to reach the borrowing cap
CapIsbns == {"111", "222", "333", "444"}
CapUserIds == {"u1", "u2"}
OneUserId == "u1"

\* Python's None, for the Optional[str] parameters of update_book / update_user
None == "<None>"

\* an Optional[str] argument: a value, the empty string, or None
Opt(S) == S \cup {"", None}

\* an optional argument as the console passes it: a value or the empty string
Typed(S) == S \cup {""}

\* variant: "is not None" in place of truthiness
Truthy_not_none(x) == x # None

\* Python truthiness of an Optional[str]: None and "" are falsy
Truthy(x) == x # None /\ x # ""

----------------------------------------------------------------------------
(* Records *)

Book(title, author, isbn, available) ==
    [title |-> title, author |-> author, isbn |-> isbn, available |-> available]

User(name, user_id) == [name |-> name, user_id |-> user_id]

CheckoutRecord(user_id, isbn) == [user_id |-> user_id, isbn |-> isbn]

----------------------------------------------------------------------------
(* StorageManager: a file is absent, holds text that json.load cannot parse, *)
(* or holds a JSON array of objects.  A JSON object is the ordered list of   *)
(* the members of item.__dict__; a JSON value is tagged with its JSON type.  *)

JStr(s) == <<"string", s>>
JBool(b) == <<"bool", b>>
Member(k, v) == [key |-> k, val |-> v]

NoFile == [exists |-> FALSE, json |-> FALSE, data |-> <<>>]

\* a file whose text is not JSON, such as: not json
BadFile == [exists |-> TRUE, json |-> FALSE, data |-> <<>>]

BookDict(b) ==
    << Member("title", JStr(b.title)), Member("author", JStr(b.author)),
       Member("isbn", JStr(b.isbn)), Member("available", JBool(b.available)) >>

UserDict(u) ==
    << Member("name", JStr(u.name)), Member("user_id", JStr(u.user_id)) >>

CheckoutDict(c) ==
    << Member("user_id", JStr(c.user_id)), Member("isbn", JStr(c.isbn)) >>

\* the value of key k in a decoded JSON object
Field(obj, k) ==
    LET i == CHOOSE j \in 1..Len(obj) : obj[j].key = k IN obj[i].val[2]

\* variant: every Book is rebuilt with the default available=True
BookFromDict_default(obj) ==
    Book(Field(obj, "title"), Field(obj, "author"), Field(obj, "isbn"), TRUE)

BookFromDict(obj) ==
    Book(Field(obj, "title"), Field(obj, "author"), Field(obj, "isbn"),
         Field(obj, "available"))

UserFromDict(obj) == User(Field(obj, "name"), Field(obj, "user_id"))

CheckoutFromDict(obj) == CheckoutRecord(Field(obj, "user_id"), Field(obj, "isbn"))

\* save_data: open(file, "w") truncates, json.dump writes the whole list
save_books(bs) ==
    [exists |-> TRUE, json |-> TRUE, data |-> [i \in 1..Len(bs) |-> BookDict(bs[i])]]

save_users(us) ==
    [exists |-> TRUE, json |-> TRUE, data |-> [i \in 1..Len(us) |-> UserDict(us[i])]]

save_checkouts(cs) ==
    [exists |-> TRUE, json |-> TRUE, data |-> [i \in 1..Len(cs) |-> CheckoutDict(cs[i])]]

\* variant: the decode error is swallowed
load_raises_never(f) == FALSE

\* load_data: json.load raises JSONDecodeError, re-raised as ValueError
load_raises(f) == f.exists /\ ~f.json

\* load_data: a missing file is the empty list
load_books(f) ==
    IF f.exists THEN [i \in 1..Len(f.data) |-> BookFromDict(f.data[i])] ELSE <<>>

load_users(f) ==
    IF f.exists THEN [i \in 1..Len(f.data) |-> UserFromDict(f.data[i])] ELSE <<>>

load_checkouts(f) ==
    IF f.exists THEN [i \in 1..Len(f.data) |-> CheckoutFromDict(f.data[i])] ELSE <<>>

----------------------------------------------------------------------------
(* List helpers *)

\* variant: list.pop() in place of list.remove(obj)
RemoveAt_pop(s, i) == [j \in 1..(Len(s) - 1) |-> s[j]]

\* list.remove of the object at position i
RemoveAt(s, i) == [j \in 1..(Len(s) - 1) |-> IF j < i THEN s[j] ELSE s[j + 1]]

\* next((x for x in s if ...), None) over the positions that match:
\* the first one, 0 for None
FirstOf(matches) ==
    IF matches = {} THEN 0 ELSE CHOOSE j \in matches : \A k \in matches : j <= k

----------------------------------------------------------------------------
(* BookManager *)

\* variant: only the Book added last is compared
isbn_exists_last(bs, isbn) == Len(bs) > 0 /\ bs[Len(bs)].isbn = isbn

\* any(book.isbn == isbn for book in self.books)
isbn_exists(bs, isbn) == \E j \in 1..Len(bs) : bs[j].isbn = isbn

\* find_book_by_isbn: position of the first Book with this isbn, 0 for None
find_book_by_isbn(bs, isbn) == FirstOf({j \in 1..Len(bs) : bs[j].isbn = isbn})

\* variant: the other Books are compared with the current isbn of the Book
isbn_taken_by_other_old(bs, idx, new_isbn) ==
    \E j \in 1..Len(bs) : j # idx /\ bs[j].isbn = bs[idx].isbn

\* variant: the Book under update is not excluded from the comparison
isbn_taken_by_any(bs, idx, new_isbn) == \E j \in 1..Len(bs) : bs[j].isbn = new_isbn

\* any(book.isbn == new_isbn for book in self.books if book != book_to_update)
\* Book defines no __eq__, so != is object identity: another position
isbn_taken_by_other(bs, idx, new_isbn) ==
    \E j \in 1..Len(bs) : j # idx /\ bs[j].isbn = new_isbn

\* variant: the Book is built anew from the three fields, available by default
apply_book_update_rebuilt(b, new_title, new_author, new_isbn) ==
    Book(IF Truthy(new_title) THEN new_title ELSE b.title,
         IF Truthy(new_author) THEN new_author ELSE b.author,
         IF Truthy(new_isbn) THEN new_isbn ELSE b.isbn,
         TRUE)

\* the three conditional assignments of update_book, in order
apply_book_update(b, new_title, new_author, new_isbn) ==
    LET b1 == IF Truthy(new_title) THEN [b EXCEPT !.title = new_title] ELSE b
        b2 == IF Truthy(new_author) THEN [b1 EXCEPT !.author = new_author] ELSE b1
    IN  IF Truthy(new_isbn) THEN [b2 EXCEPT !.isbn = new_isbn] ELSE b2

add_book(title, author, isbn) ==
    /\ IF isbn_exists(books, isbn)
       THEN /\ Return("add_book", FALSE, 85)
            /\ UNCHANGED <<books, booksFile>>
       ELSE /\ Len(books) < MaxBooks
            /\ books' = Append(books, Book(title, author, isbn, TRUE))
            /\ booksFile' = save_books(books')
            /\ Return("add_book", TRUE, 90)
    /\ UNCHANGED <<users, usersFile, checkouts, checkoutsFile>>

delete_book(isbn) ==
    /\ LET idx == find_book_by_isbn(books, isbn) IN
       IF idx # 0
       THEN /\ books' = RemoveAt(books, idx)
            /\ booksFile' = save_books(books')
            /\ Return("delete_book", TRUE, 106)
       ELSE /\ Return("delete_book", FALSE, 107)
            /\ UNCHANGED <<books, booksFile>>
    /\ UNCHANGED <<users, usersFile, checkouts, checkoutsFile>>

update_book(isbn, new_title, new_author, new_isbn) ==
    /\ LET idx == find_book_by_isbn(books, isbn) IN
       IF idx # 0
       THEN IF Truthy(new_isbn) /\ isbn_taken_by_other(books, idx, new_isbn)
            THEN /\ Return("update_book", FALSE, 134)
                 /\ UNCHANGED <<books, booksFile>>
            ELSE /\ books' = [books EXCEPT ![idx] =
                        apply_book_update(@, new_title, new_author, new_isbn)]
                 /\ booksFile' = save_books(books')
                 /\ Return("update_book", TRUE, 144)
       ELSE /\ Return("update_book", FALSE, 145)
            /\ UNCHANGED <<books, booksFile>>
    /\ UNCHANGED <<users, usersFile, checkouts, checkoutsFile>>

----------------------------------------------------------------------------
(* UserManager *)

user_id_exists(us, user_id) == \E j \in 1..Len(us) : us[j].user_id = user_id

\* next((user for user in self.users if user.user_id == user_id), None)
find_user_by_id(us, user_id) == FirstOf({j \in 1..Len(us) : us[j].user_id = user_id})

\* variant: the new id is compared with the names of the other Users
user_id_taken_by_other_name(us, idx, new_user_id) ==
    \E j \in 1..Len(us) : j # idx /\ us[j].name = new_user_id

\* any(user.user_id == new_user_id for user in self.users if user != user_to_update)
user_id_taken_by_other(us, idx, new_user_id) ==
    \E j \in 1..Len(us) : j # idx /\ us[j].user_id = new_user_id

add_user(name, user_id) ==
    /\ IF user_id_exists(users, user_id)
       THEN /\ Return("add_user", FALSE, 57)
            /\ UNCHANGED <<users, usersFile>>
       ELSE /\ Len(users) < MaxUsers
            /\ users' = Append(users, User(name, user_id))
            /\ usersFile' = save_users(users')
            /\ Return("add_user", TRUE, 61)
    /\ UNCHANGED <<books, booksFile, checkouts, checkoutsFile>>

delete_user(user_id) ==
    /\ LET idx == find_user_by_id(users, user_id) IN
       IF idx # 0
       THEN /\ users' = RemoveAt(users, idx)
            /\ usersFile' = save_users(users')
            /\ Return("delete_user", TRUE, 73)
       ELSE /\ Return("delete_user", FALSE, 74)
            /\ UNCHANGED <<users, usersFile>>
    /\ UNCHANGED <<books, booksFile, checkouts, checkoutsFile>>

\* the name is assigned before the new user_id is checked against the others;
\* the rejection returns without saving
update_user(user_id, new_name, new_user_id) ==
    /\ LET idx == find_user_by_id(users, user_id) IN
       IF idx # 0
       THEN LET named == IF Truthy(new_name)
                         THEN [users EXCEPT ![idx].name = new_name]
                         ELSE users
            IN  IF Truthy(new_user_id)
                THEN IF user_id_taken_by_other(named, idx, new_user_id)
                     THEN /\ users' = named
                          /\ Return("update_user", FALSE, 97)
                          /\ UNCHANGED usersFile
                     ELSE /\ users' = [named EXCEPT ![idx].user_id = new_user_id]
                          /\ usersFile' = save_users(users')
                          /\ Return("update_user", TRUE, 101)
                ELSE /\ users' = named
                     /\ usersFile' = save_users(users')
                     /\ Return("update_user", TRUE, 101)
       ELSE /\ Return("update_user", FALSE, 102)
            /\ UNCHANGED <<users, usersFile>>
    /\ UNCHANGED <<books, booksFile, checkouts, checkoutsFile>>

----------------------------------------------------------------------------
(* CheckoutManager *)

MaxCheckoutsPerUser == 3

\* variant: only the record appended last is compared
already_checked_out_last(cs, isbn) == Len(cs) > 0 /\ cs[Len(cs)].isbn = isbn

\* variant: the ledger is not consulted, the Book's flag alone decides
already_checked_out_unasked(cs, isbn) == FALSE

\* any(checkout.isbn == isbn for checkout in self.checkouts)
already_checked_out(cs, isbn) == \E j \in 1..Len(cs) : cs[j].isbn = isbn

\* sum(checkout.user_id == user_id for checkout in self.checkouts)
user_checkout_count(cs, user_id) ==
    Cardinality({j \in 1..Len(cs) : cs[j].user_id = user_id})

\* variant: > in place of >=
user_at_limit_gt(cs, user_id) == user_checkout_count(cs, user_id) > MaxCheckoutsPerUser

\* variant: a borrower missing from the User Registry is turned away as well
user_at_limit_or_unknown(cs, user_id) ==
    \/ user_checkout_count(cs, user_id) >= MaxCheckoutsPerUser
    \/ ~user_id_exists(users, user_id)

user_at_limit(cs, user_id) == user_checkout_count(cs, user_id) >= MaxCheckoutsPerUser

\* list_user_checkouts: the records of this user, in ledger order
list_user_checkouts(cs, user_id) ==
    LET Mine(c) == c.user_id = user_id IN SelectSeq(cs, Mine)

\* variant: "if book" only
book_can_go_out_exists(bs, idx) == idx # 0

\* if book and book.available
book_can_go_out(bs, idx) == idx # 0 /\ bs[idx].available

\* variant: the Book is flagged and saved before the cap is checked
checkout_book_flags_first(user_id, isbn) ==
    /\ LET idx == find_book_by_isbn(books, isbn) IN
       IF already_checked_out(checkouts, isbn)
       THEN /\ Return("checkout_book", FALSE, 46)
            /\ UNCHANGED <<books, booksFile, checkouts, checkoutsFile>>
       ELSE IF book_can_go_out(books, idx)
       THEN /\ books' = [books EXCEPT ![idx].available = FALSE]
            /\ booksFile' = save_books(books')
            /\ IF user_at_limit(checkouts, user_id)
               THEN /\ Return("checkout_book", FALSE, 50)
                    /\ UNCHANGED <<checkouts, checkoutsFile>>
               ELSE /\ Len(checkouts) < MaxLedger
                    /\ checkouts' = Append(checkouts, CheckoutRecord(user_id, isbn))
                    /\ checkoutsFile' = save_checkouts(checkouts')
                    /\ Return("checkout_book", TRUE, 59)
       ELSE /\ Return("checkout_book", FALSE, 61)
            /\ UNCHANGED <<books, booksFile, checkouts, checkoutsFile>>
    /\ UNCHANGED <<users, usersFile>>

checkout_book(user_id, isbn) ==
    /\ LET idx == find_book_by_isbn(books, isbn) IN
       IF already_checked_out(checkouts, isbn)
       THEN /\ Return("checkout_book", FALSE, 46)
            /\ UNCHANGED <<books, booksFile, checkouts, checkoutsFile>>
       ELSE IF user_at_limit(checkouts, user_id)
       THEN /\ Return("checkout_book", FALSE, 50)
            /\ UNCHANGED <<books, booksFile, checkouts, checkoutsFile>>
       ELSE IF book_can_go_out(books, idx)
       THEN /\ Len(checkouts) < MaxLedger
            /\ books' = [books EXCEPT ![idx].available = FALSE]
            /\ booksFile' = save_books(books')
            /\ checkouts' = Append(checkouts, CheckoutRecord(user_id, isbn))
            /\ checkoutsFile' = save_checkouts(checkouts')
            /\ Return("checkout_book", TRUE, 59)
       ELSE /\ Return("checkout_book", FALSE, 61)
            /\ UNCHANGED <<books, booksFile, checkouts, checkoutsFile>>
    /\ UNCHANGED <<users, usersFile>>

\* for checkout in self.checkouts: if checkout.isbn == isbn
find_checkout_by_isbn(cs, isbn) == FirstOf({j \in 1..Len(cs) : cs[j].isbn = isbn})

\* variant: the Book's flag is not set back
checkin_book_keeps_flag(isbn) ==
    /\ LET cidx == find_checkout_by_isbn(checkouts, isbn) IN
       IF cidx # 0
       THEN /\ checkouts' = RemoveAt(checkouts, cidx)
            /\ UNCHANGED <<books, booksFile>>
            /\ checkoutsFile' = save_checkouts(checkouts')
            /\ Return("checkin_book", TRUE, 81)
       ELSE /\ Return("checkin_book", FALSE, 82)
            /\ UNCHANGED <<books, booksFile, checkouts, checkoutsFile>>
    /\ UNCHANGED <<users, usersFile>>

\* variant: the Book is marked available whether or not a record was found
checkin_book_always_frees(isbn) ==
    /\ LET cidx == find_checkout_by_isbn(checkouts, isbn)
           idx == find_book_by_isbn(books, isbn)
       IN
       /\ IF idx # 0
          THEN /\ books' = [books EXCEPT ![idx].available = TRUE]
               /\ booksFile' = save_books(books')
          ELSE UNCHANGED <<books, booksFile>>
       /\ IF cidx # 0
          THEN /\ checkouts' = RemoveAt(checkouts, cidx)
               /\ checkoutsFile' = save_checkouts(checkouts')
               /\ Return("checkin_book", TRUE, 81)
          ELSE /\ Return("checkin_book", FALSE, 82)
               /\ UNCHANGED <<checkouts, checkoutsFile>>
    /\ UNCHANGED <<users, usersFile>>

\* variant: a record whose Book is gone cannot be checked in
checkin_book_needs_book(isbn) ==
    /\ LET cidx == find_checkout_by_isbn(checkouts, isbn)
           idx == find_book_by_isbn(books, isbn)
       IN
       IF cidx # 0 /\ idx # 0
       THEN /\ checkouts' = RemoveAt(checkouts, cidx)
            /\ books' = [books EXCEPT ![idx].available = TRUE]
            /\ booksFile' = save_books(books')
            /\ checkoutsFile' = save_checkouts(checkouts')
            /\ Return("checkin_book", TRUE, 81)
       ELSE /\ Return("checkin_book", FALSE, 82)
            /\ UNCHANGED <<books, booksFile, checkouts, checkoutsFile>>
    /\ UNCHANGED <<users, usersFile>>

checkin_book(isbn) ==
    /\ LET cidx == find_checkout_by_isbn(checkouts, isbn)
           idx == find_book_by_isbn(books, isbn)
       IN
       IF cidx # 0
       THEN /\ checkouts' = RemoveAt(checkouts, cidx)
            /\ IF idx # 0
               THEN /\ books' = [books EXCEPT ![idx].available = TRUE]
                    /\ booksFile' = save_books(books')
               ELSE UNCHANGED <<books, booksFile>>
            /\ checkoutsFile' = save_checkouts(checkouts')
            /\ Return("checkin_book", TRUE, 81)
       ELSE /\ Return("checkin_book", FALSE, 82)
            /\ UNCHANGED <<books, booksFile, checkouts, checkoutsFile>>
    /\ UNCHANGED <<users, usersFile>>

----------------------------------------------------------------------------
(* Construction of the managers: each loads its file.  ret is FALSE when    *)
(* load_data raised ValueError (storage.py:47) and no manager object exists. *)

new_BookManager ==
    /\ IF load_raises(booksFile)
       THEN /\ Return("BookManager", FALSE, 47)
            /\ UNCHANGED books
       ELSE /\ books' = load_books(booksFile)
            /\ Return("BookManager", TRUE, IF booksFile.exists THEN 43 ELSE 45)
    /\ UNCHANGED <<users, checkouts, booksFile, usersFile, checkoutsFile>>

new_UserManager ==
    /\ IF load_raises(usersFile)
       THEN /\ Return("UserManager", FALSE, 47)
            /\ UNCHANGED users
       ELSE /\ users' = load_users(usersFile)
            /\ Return("UserManager", TRUE, IF usersFile.exists THEN 43 ELSE 45)
    /\ UNCHANGED <<books, checkouts, booksFile, usersFile, checkoutsFile>>

new_CheckoutManager ==
    /\ IF load_raises(checkoutsFile)
       THEN /\ Return("CheckoutManager", FALSE, 47)
            /\ UNCHANGED checkouts
       ELSE /\ checkouts' = load_checkouts(checkoutsFile)
            /\ Return("CheckoutManager", TRUE, IF checkoutsFile.exists THEN 43 ELSE 45)
    /\ UNCHANGED <<books, users, booksFile, usersFile, checkoutsFile>>

----------------------------------------------------------------------------
(* Queries.  A str is read through its characters; ret is whether the value  *)
(* returned is truthy (a non-empty list, a Book rather than None).           *)

SearchTerms == {"dune", "Herb", "1", "u", "an", "zz"}

\* the characters of the strings in use
Chars(s) ==
    CASE s = "Dune" -> <<"D", "u", "n", "e">>
      [] s = "Emma" -> <<"E", "m", "m", "a">>
      [] s = "Herbert" -> <<"H", "e", "r", "b", "e", "r", "t">>
      [] s = "Austen" -> <<"A", "u", "s", "t", "e", "n">>
      [] s = "111" -> <<"1", "1", "1">>
      [] s = "222" -> <<"2", "2", "2">>
      [] s = "333" -> <<"3", "3", "3">>
      [] s = "444" -> <<"4", "4", "4">>
      [] s = "Ann" -> <<"A", "n", "n">>
      [] s = "Bob" -> <<"B", "o", "b">>
      [] s = "u1" -> <<"u", "1">>
      [] s = "u2" -> <<"u", "2">>
      [] s = "dune" -> <<"d", "u", "n", "e">>
      [] s = "Herb" -> <<"H", "e", "r", "b">>
      [] s = "1" -> <<"1">>
      [] s = "u" -> <<"u">>
      [] s = "an" -> <<"a", "n">>
      [] s = "zz" -> <<"z", "z">>
      [] OTHER -> <<>>

\* str.lower()
lower(cs) ==
    [k \in 1..Len(cs) |->
        CASE cs[k] = "A" -> "a"
          [] cs[k] = "B" -> "b"
          [] cs[k] = "D" -> "d"
          [] cs[k] = "E" -> "e"
          [] cs[k] = "H" -> "h"
          [] OTHER -> cs[k]]

\* x in y, for two str
is_in(x, y) ==
    \E o \in 0..(Len(y) - Len(x)) : \A k \in 1..Len(x) : y[o + k] = x[k]

\* BookManager.find_book: the Books matching in title, author or isbn
find_book(bs, search_term) ==
    LET search_term_lower == lower(Chars(search_term))
        Found(book) ==
            \/ is_in(search_term_lower, lower(Chars(book.title)))
            \/ is_in(search_term_lower, lower(Chars(book.author)))
            \/ is_in(Chars(search_term), Chars(book.isbn))
    IN  SelectSeq(bs, Found)

\* UserManager.find_user: the Users matching in name or user_id
find_user(us, search_term) ==
    LET search_term_lower == lower(Chars(search_term))
        Found(user) ==
            \/ is_in(search_term_lower, lower(Chars(user.name)))
            \/ is_in(Chars(search_term), Chars(user.user_id))
    IN  SelectSeq(us, Found)

call_find_book(search_term) ==
    /\ Return("find_book", find_book(books, search_term) # <<>>, 187)
    /\ UNCHANGED <<books, users, checkouts, booksFile, usersFile, checkoutsFile>>

call_find_book_by_isbn(isbn) ==
    /\ Return("find_book_by_isbn", find_book_by_isbn(books, isbn) # 0, 163)
    /\ UNCHANGED <<books, users, checkouts, booksFile, usersFile, checkoutsFile>>

call_find_user(search_term) ==
    /\ Return("find_user", find_user(users, search_term) # <<>>, 119)
    /\ UNCHANGED <<books, users, checkouts, booksFile, usersFile, checkoutsFile>>

call_list_user_checkouts(user_id) ==
    /\ Return("list_user_checkouts", list_user_checkouts(checkouts, user_id) # <<>>, 94)
    /\ UNCHANGED <<books, users, checkouts, booksFile, usersFile, checkoutsFile>>

----------------------------------------------------------------------------
(* Process termination between the two writes of checkout_book / checkin_book, *)
(* followed by a new process whose managers load the files.  Nothing is       *)
(* returned: ret is FALSE and line is the last statement that completed.      *)

\* LibrarySystemUI.__init__ of the next process, over files that are JSON
Reloaded(bf, uf, cf) ==
    /\ books' = load_books(bf)
    /\ users' = load_users(uf)
    /\ checkouts' = load_checkouts(cf)

\* variant: the ledger is written first, the Book file is the pending write
checkout_book_crash_ledger_first(user_id, isbn) ==
    LET idx == find_book_by_isbn(books, isbn) IN
    /\ ~already_checked_out(checkouts, isbn)
    /\ ~user_at_limit(checkouts, user_id)
    /\ book_can_go_out(books, idx)
    /\ Len(checkouts) < MaxLedger
    /\ checkoutsFile' = save_checkouts(Append(checkouts, CheckoutRecord(user_id, isbn)))
    /\ UNCHANGED <<booksFile, usersFile>>
    /\ Reloaded(booksFile', usersFile', checkoutsFile')
    /\ Return("crash_in_checkout_book", FALSE, 56)

\* checkout_book stopped after self.book_manager.save_books() (check.py:56)
checkout_book_crash(user_id, isbn) ==
    LET idx == find_book_by_isbn(books, isbn) IN
    /\ ~already_checked_out(checkouts, isbn)
    /\ ~user_at_limit(checkouts, user_id)
    /\ book_can_go_out(books, idx)
    /\ booksFile' = save_books([books EXCEPT ![idx].available = FALSE])
    /\ UNCHANGED <<usersFile, checkoutsFile>>
    /\ Reloaded(booksFile', usersFile', checkoutsFile')
    /\ Return("crash_in_checkout_book", FALSE, 56)

\* checkin_book stopped after self.book_manager.save_books() (check.py:79)
checkin_book_crash(isbn) ==
    LET cidx == find_checkout_by_isbn(checkouts, isbn)
        idx == find_book_by_isbn(books, isbn)
    IN
    /\ cidx # 0
    /\ idx # 0
    /\ booksFile' = save_books([books EXCEPT ![idx].available = TRUE])
    /\ UNCHANGED <<usersFile, checkoutsFile>>
    /\ Reloaded(booksFile', usersFile', checkoutsFile')
    /\ Return("crash_in_checkin_book", FALSE, 79)

----------------------------------------------------------------------------
(* Specifications *)

\* LibrarySystemUI.__init__: the three managers load their (absent) files
Init ==
    /\ booksFile = NoFile
    /\ usersFile = NoFile
    /\ checkoutsFile = NoFile
    /\ books = load_books(booksFile)
    /\ users = load_users(usersFile)
    /\ checkouts = load_checkouts(checkoutsFile)
    /\ lastOp = "init"
    /\ ret = TRUE
    /\ line = 0

AddBook == \E t \in Titles, a \in Authors, i \in Isbns : add_book(t, a, i)
DeleteBook == \E i \in Isbns : delete_book(i)
UpdateBook ==
    \E i \in Isbns, nt \in Typed(Titles), na \in Typed(Authors), ni \in Typed(Isbns) :
        update_book(i, nt, na, ni)
CheckoutBook == \E u \in UserIds, i \in Isbns : checkout_book(u, i)
CheckinBook == \E i \in Isbns : checkin_book(i)

\* Book Registry and Checkout Ledger, every field of a Book varying
Next ==
    \/ AddBook
    \/ DeleteBook
    \/ UpdateBook
    \/ CheckoutBook
    \/ CheckinBook

Spec == Init /\ [][Next]_vars

RegAddUser == \E n \in Names, u \in UserIds : add_user(n, u)
RegDeleteUser == \E u \in UserIds : delete_user(u)
RegUpdateUser ==
    \E u \in UserIds, nn \in Opt(Names), nu \in Opt(UserIds) : update_user(u, nn, nu)

RegAddBook == \E t \in CapTitles, a \in CapAuthors, i \in Isbns : add_book(t, a, i)
RegDeleteBook == \E i \in Isbns : delete_book(i)
RegUpdateBook ==
    \E i \in Isbns, nt \in Opt(CapTitles), na \in Opt(CapAuthors), ni \in Opt(Isbns) :
        update_book(i, nt, na, ni)

\* Book Registry and User Registry side by side (they share no state), the
\* optional arguments being a value, the empty string or None
NextReg ==
    \/ RegAddBook
    \/ RegDeleteBook
    \/ RegUpdateBook
    \/ RegAddUser
    \/ RegDeleteUser
    \/ RegUpdateUser

SpecReg == Init /\ [][NextReg]_vars

CapAddBook == \E t \in CapTitles, a \in CapAuthors, i \in CapIsbns : add_book(t, a, i)
CapCheckoutBook == \E u \in CapUserIds, i \in CapIsbns : checkout_book(u, i)
CapCheckinBook == \E i \in CapIsbns : checkin_book(i)

\* two borrowers over four books: the borrowing cap is reached
NextCap ==
    \/ CapAddBook
    \/ CapCheckoutBook
    \/ CapCheckinBook

SpecCap == Init /\ [][NextCap]_vars

OneAddBook == \E t \in CapTitles, a \in CapAuthors, i \in CapIsbns : add_book(t, a, i)
OneDeleteBook == \E i \in CapIsbns : delete_book(i)
OneUpdateBook == \E i \in CapIsbns, ni \in Opt(CapIsbns) : update_book(i, None, None, ni)
OneCheckoutBook == \E i \in CapIsbns : checkout_book(OneUserId, i)
OneCheckinBook == \E i \in CapIsbns : checkin_book(i)

\* one borrower over four books whose isbns are added, deleted and changed
NextOne ==
    \/ OneAddBook
    \/ OneDeleteBook
    \/ OneUpdateBook
    \/ OneCheckoutBook
    \/ OneCheckinBook

SpecOne == Init /\ [][NextOne]_vars
AllAddBook == \E t \in CapTitles, a \in CapAuthors, i \in Isbns : add_book(t, a, i)
AllDeleteBook == \E i \in Isbns : delete_book(i)
AllUpdateBook == \E i \in Isbns, ni \in Typed(Isbns) : update_book(i, "", "", ni)
AllAddUser == \E n \in Names, u \in UserIds : add_user(n, u)
AllDeleteUser == \E u \in UserIds : delete_user(u)
AllUpdateUser ==
    \E u \in UserIds, nn \in Typed(Names), nu \in Typed(UserIds) : update_user(u, nn, nu)
AllCheckoutBook == \E u \in UserIds, i \in Isbns : checkout_book(u, i)
AllCheckinBook == \E i \in Isbns : checkin_book(i)

\* the three managers together, as the console drives them
NextAll ==
    \/ AllAddBook
    \/ AllDeleteBook
    \/ AllUpdateBook
    \/ AllAddUser
    \/ AllDeleteUser
    \/ AllUpdateUser
    \/ AllCheckoutBook
    \/ AllCheckinBook

SpecAll == Init /\ [][NextAll]_vars

CrashAddBook == \E t \in CapTitles, a \in CapAuthors, i \in Isbns : add_book(t, a, i)
CrashDeleteBook == \E i \in Isbns : delete_book(i)
CrashUpdateBook == \E i \in Isbns, ni \in Typed(Isbns) : update_book(i, "", "", ni)
CrashCheckoutBook == \E u \in UserIds, i \in Isbns : checkout_book(u, i)
CrashCheckinBook == \E i \in Isbns : checkin_book(i)
CheckoutBookCrash == \E u \in UserIds, i \in Isbns : checkout_book_crash(u, i)
CheckinBookCrash == \E i \in Isbns : checkin_book_crash(i)

\* Book Registry and ledger, where the process may die between the two writes
\* of a checkout or a checkin and be started again
NextCrash ==
    \/ CrashAddBook
    \/ CrashDeleteBook
    \/ CrashUpdateBook
    \/ CrashCheckoutBook
    \/ CrashCheckinBook
    \/ CheckoutBookCrash
    \/ CheckinBookCrash

SpecCrash == Init /\ [][NextCrash]_vars

RecAddBook == \E t \in CapTitles, a \in CapAuthors, i \in Isbns : add_book(t, a, i)
RecCheckoutBook == \E u \in UserIds, i \in Isbns : checkout_book(u, i)
RecCheckinBook == \E i \in Isbns : checkin_book(i)
RecCheckinBookCrash == \E i \in Isbns : checkin_book_crash(i)

\* Books are added, lent and returned, and the process may die between the
\* two writes of a checkin and be started again
NextRecover ==
    \/ RecAddBook
    \/ RecCheckoutBook
    \/ RecCheckinBook
    \/ RecCheckinBookCrash

SpecRecover == Init /\ [][NextRecover]_vars

FindBook == \E t \in SearchTerms : call_find_book(t)
FindBookByIsbn == \E i \in Isbns : call_find_book_by_isbn(i)
FindUser == \E t \in SearchTerms : call_find_user(t)
ListUserCheckouts == \E u \in UserIds : call_list_user_checkouts(u)

\* the eight operations and the four queries
NextFrame ==
    \/ NextAll
    \/ FindBook
    \/ FindBookByIsbn
    \/ FindUser
    \/ ListUserCheckouts

SpecFrame == Init /\ [][NextFrame]_vars

\* files left by an earlier run: absent, unparsable, or a saved collection
StoredBooks ==
    {<<>>} \cup {<<Book(t, a, i, v)>> :
                    t \in CapTitles, a \in CapAuthors, i \in Isbns, v \in BOOLEAN}
           \cup {<<Book("Dune", "Herbert", "111", v), Book("Emma", "Austen", "222", w)>> :
                    v \in BOOLEAN, w \in BOOLEAN}
StoredUsers ==
    {<<>>, <<User("Ann", "u1")>>, <<User("Ann", "u1"), User("Bob", "u2")>>}
StoredCheckouts ==
    {<<>>, <<CheckoutRecord("u1", "111")>>,
     <<CheckoutRecord("u2", "222"), CheckoutRecord("u1", "111")>>}

\* before LibrarySystemUI.__init__ runs: no manager exists yet
InitLoad ==
    /\ booksFile \in {NoFile, BadFile} \cup {save_books(bs) : bs \in StoredBooks}
    /\ usersFile \in {NoFile, BadFile} \cup {save_users(us) : us \in StoredUsers}
    /\ checkoutsFile \in
         {NoFile, BadFile} \cup {save_checkouts(cs) : cs \in StoredCheckouts}
    /\ books = <<>>
    /\ users = <<>>
    /\ checkouts = <<>>
    /\ lastOp = "init"
    /\ ret = TRUE
    /\ line = 0

NextLoad ==
    \/ new_BookManager
    \/ new_UserManager
    \/ new_CheckoutManager

SpecLoad == InitLoad /\ [][NextLoad]_vars

----------------------------------------------------------------------------
(* Vocabulary of the properties *)

\* positions of the Books with this isbn
BooksWithIsbn(i) == {k \in 1..Len(books) : books[k].isbn = i}

\* positions of the CheckoutRecords with this isbn / of this user
RecordsWithIsbn(i) == {j \in 1..Len(checkouts) : checkouts[j].isbn = i}
RecordsOfUser(u) == {j \in 1..Len(checkouts) : checkouts[j].user_id = u}

----------------------------------------------------------------------------
(* Properties *)

\* C1: in every reachable state of the Book Registry and the ledger, no two
\* Books of the registry have the same isbn.
C1_UniqueIsbn ==
    \A j, k \in 1..Len(books) : j # k => books[j].isbn # books[k].isbn

\* update_book has just rejected a new isbn that another Book holds
C1_Witness == lastOp = "update_book" /\ line = 134 /\ Len(books) = 2

\* C2: at most one CheckoutRecord exists per isbn, and checkout_book of an isbn
\* that already has a CheckoutRecord returns false, whoever the user is.
C2_OneRecordPerIsbn ==
    /\ [](\A j, k \in 1..Len(checkouts) :
            j # k => checkouts[j].isbn # checkouts[k].isbn)
    /\ [][lastOp' = "checkout_book" =>
            \A u \in UserIds, i \in Isbns :
                (RecordsWithIsbn(i) # {} /\ checkout_book(u, i)) => ret' = FALSE]_vars

\* checkout_book has just returned at "book is already checked out" while two
\* books are out
C2_Witness == lastOp = "checkout_book" /\ line = 46 /\ Len(checkouts) = 2

\* C3: no user_id has more than three CheckoutRecords, and checkout_book by a
\* user_id that has three CheckoutRecords returns false for every isbn.
C3_BorrowingCap ==
    /\ [](\A u \in CapUserIds : Cardinality(RecordsOfUser(u)) <= 3)
    /\ [][lastOp' = "checkout_book" =>
            \A u \in CapUserIds, i \in CapIsbns :
                (Cardinality(RecordsOfUser(u)) = 3 /\ checkout_book(u, i))
                    => ret' = FALSE]_vars

\* checkout_book has just returned at the cap check although a Book is still
\* available and the other user holds no record
C3_Witness ==
    /\ lastOp = "checkout_book" /\ line = 50
    /\ \E k \in 1..Len(books) : books[k].available
    /\ \E u \in CapUserIds : RecordsOfUser(u) = {}

\* C4: a Book's available flag is false exactly when a CheckoutRecord with the
\* Book's isbn exists in the ledger.
C4_InSync ==
    \A k \in 1..Len(books) :
        (books[k].available = FALSE) <=> (RecordsWithIsbn(books[k].isbn) # {})

UsersWithId(u) == {k \in 1..Len(users) : users[k].user_id = u}

\* an optional argument that was given (not None, not empty)
Provided(x) == x \notin {None, ""}

\* C6: update_user with a non-empty new_user_id that is the user_id of a
\* different existing User returns false and mutates no User, whatever new_name.
C6_RejectWithoutMutation ==
    [][lastOp' = "update_user" => \A u \in UserIds, nn \in Opt(Names), nu \in UserIds :
        ( /\ update_user(u, nn, nu)
          /\ \E j \in UsersWithId(u), k \in UsersWithId(nu) : j # k )
            => (ret' = FALSE /\ users' = users)]_vars

\* C7: add_book with an isbn some Book holds returns false and leaves the
\* collection unchanged; with an isbn no Book holds it returns true and appends
\* one available Book at the end, which find_book_by_isbn then returns; every
\* Book of the collection is retrievable by its isbn.
C7_AddBook ==
    /\ [](\A k \in 1..Len(books) : find_book_by_isbn(books, books[k].isbn) = k)
    /\ [][lastOp' = "add_book" => \A t \in Titles, a \in Authors, i \in Isbns :
            add_book(t, a, i) =>
                IF BooksWithIsbn(i) # {}
                THEN ret' = FALSE /\ books' = books
                ELSE /\ ret' = TRUE
                     /\ books' = books \o
                          <<[title |-> t, author |-> a, isbn |-> i, available |-> TRUE]>>
                     /\ find_book_by_isbn(books', i) = Len(books')]_vars

\* add_book has just rejected a repeated isbn with two Books in the registry
C7_Witness == lastOp = "add_book" /\ line = 85 /\ Len(books) = 2

\* C8: update_book on a missing isbn returns false and changes nothing; on an
\* existing Book it returns false and changes nothing exactly when new_isbn is
\* provided and is the isbn of a different Book; otherwise it returns true and
\* changes only the provided, non-empty fields of that one Book.
C8_UpdateBook ==
    [][lastOp' = "update_book" =>
       \A i \in Isbns, nt \in Typed(Titles), na \in Typed(Authors),
          ni \in Typed(Isbns) :
        update_book(i, nt, na, ni) =>
            IF BooksWithIsbn(i) = {}
            THEN ret' = FALSE /\ books' = books /\ checkouts' = checkouts
            ELSE LET k == CHOOSE k \in BooksWithIsbn(i) : TRUE
                     collides == /\ Provided(ni)
                                 /\ \E j \in 1..Len(books) :
                                        j # k /\ books[j].isbn = ni
                 IN  /\ checkouts' = checkouts
                     /\ IF collides
                        THEN ret' = FALSE /\ books' = books
                        ELSE /\ ret' = TRUE
                             /\ books' = [books EXCEPT ![k] =
                                  [title |-> IF Provided(nt) THEN nt ELSE @.title,
                                   author |-> IF Provided(na) THEN na ELSE @.author,
                                   isbn |-> IF Provided(ni) THEN ni ELSE @.isbn,
                                   available |-> @.available]]]_vars

\* update_book has just succeeded on a registry of two Books, one checked out
C8_Witness ==
    /\ lastOp = "update_book" /\ line = 144 /\ Len(books) = 2
    /\ \E k \in 1..Len(books) : ~books[k].available

\* C9: update_book and update_user on an existing key with every optional
\* field omitted (None or empty) return true and leave every record, and the
\* order of the collection, identical.
C9_NoOpUpdate ==
    [][ /\ lastOp' = "update_book" =>
           \A i \in Isbns, nt \in {None, ""}, na \in {None, ""}, ni \in {None, ""} :
            (BooksWithIsbn(i) # {} /\ update_book(i, nt, na, ni))
                => (ret' = TRUE /\ books' = books /\ users' = users)
        /\ lastOp' = "update_user" =>
           \A u \in UserIds, nn \in {None, ""}, nu \in {None, ""} :
            (UsersWithId(u) # {} /\ update_user(u, nn, nu))
                => (ret' = TRUE /\ users' = users /\ books' = books) ]_vars

\* update_user has just returned true with two Users and two Books registered
C9_Witness ==
    /\ lastOp = "update_user" /\ line = 101
    /\ Len(users) = 2 /\ Len(books) = 2

\* C10: delete_book of an isbn some Book holds returns true and removes exactly
\* that Book, the others keeping their order, after which find_book_by_isbn
\* finds nothing; of an isbn no Book holds it returns false and changes nothing.
C10_DeleteBook ==
    [][lastOp' = "delete_book" => \A i \in Isbns :
        delete_book(i) =>
            IF BooksWithIsbn(i) # {}
            THEN LET k == CHOOSE k \in BooksWithIsbn(i) : TRUE
                 IN  /\ ret' = TRUE
                     /\ books' = SubSeq(books, 1, k - 1) \o
                                 SubSeq(books, k + 1, Len(books))
                     /\ find_book_by_isbn(books', i) = 0
            ELSE ret' = FALSE /\ books' = books]_vars

\* delete_book has just removed one of two Books, leaving a checked-out one
C10_Witness ==
    /\ lastOp = "delete_book" /\ line = 106 /\ Len(books) = 1
    /\ ~books[1].available

\* a Book that is marked unavailable while no CheckoutRecord has its isbn
Trapped(bs, cs, k) ==
    /\ ~bs[k].available
    /\ \A j \in 1..Len(cs) : cs[j].isbn # bs[k].isbn

\* C11: checkin_book(isbn) returns true exactly when a CheckoutRecord with the
\* isbn exists; it then removes that record, so that list_user_checkouts of the
\* borrower no longer holds the isbn, and sets the flag of the Book with that
\* isbn to true; with no such record it returns false and changes neither the
\* registry nor the ledger.
C11_Checkin ==
    [][lastOp' = "checkin_book" => \A i \in Isbns :
        checkin_book(i) =>
            IF RecordsWithIsbn(i) # {}
            THEN LET j == CHOOSE j \in RecordsWithIsbn(i) : TRUE
                     borrower == checkouts[j].user_id
                     listed == list_user_checkouts(checkouts', borrower)
                 IN  /\ ret' = TRUE
                     /\ checkouts' = SubSeq(checkouts, 1, j - 1) \o
                                     SubSeq(checkouts, j + 1, Len(checkouts))
                     /\ \A n \in 1..Len(listed) : listed[n].isbn # i
                     /\ Len(books') = Len(books)
                     /\ \A k \in 1..Len(books) :
                          books'[k] = IF books[k].isbn = i
                                      THEN [books[k] EXCEPT !.available = TRUE]
                                      ELSE books[k]
            ELSE ret' = FALSE /\ books' = books /\ checkouts' = checkouts]_vars

\* checkin_book has just returned a Book: one record is left, and some Book is
\* available with no record
C11_Witness ==
    /\ lastOp = "checkin_book" /\ line = 81 /\ Len(checkouts) = 1
    /\ \E k \in 1..Len(books) : books[k].available /\ RecordsWithIsbn(books[k].isbn) = {}

\* C12: while a Book is unavailable and no CheckoutRecord has its isbn,
\* checkin_book of that isbn and checkout_book of that isbn by any user return
\* false and change nothing, and no checkout_book or checkin_book call of any
\* isbn makes the Book available or gives it a record.
C12_DesyncTrap ==
    [][lastOp' \in {"checkout_book", "checkin_book"} =>
        \A k \in 1..Len(books) : Trapped(books, checkouts, k) =>
            /\ Len(books') = Len(books)
            /\ books'[k] = books[k]
            /\ Trapped(books', checkouts', k)
            /\ \A u \in UserIds :
                 (checkout_book(u, books[k].isbn) \/ checkin_book(books[k].isbn))
                     => /\ ret' = FALSE
                        /\ UNCHANGED <<books, checkouts, booksFile, checkoutsFile>>]_vars

\* checkin_book has just been refused while the only Book is trapped
C12_Witness ==
    /\ lastOp = "checkin_book" /\ line = 82
    /\ Len(books) = 1 /\ Trapped(books, checkouts, 1) /\ checkouts = <<>>

\* C13: in every state reachable by add_user, delete_user and update_user
\* calls, accepted or rejected, no two Users have the same user_id.
C13_UniqueUserId ==
    \A j, k \in 1..Len(users) : j # k => users[j].user_id # users[k].user_id

\* update_user has just rejected a new user_id that the other User holds
C13_Witness == lastOp = "update_user" /\ line = 97 /\ Len(users) = 2

\* the user_ids of the User Registry
RegisteredIds == {users[k].user_id : k \in 1..Len(users)}

\* C14: the result of checkout_book and checkin_book and the Books and records
\* they leave are determined by the Book Registry, the ledger and the arguments
\* alone, whatever the User Registry holds; checkout_book by a user_id that
\* is not in the User Registry succeeds when the other conditions hold.
C14_LedgerIgnoresUsers ==
    [][lastOp' \in {"checkout_book", "checkin_book"} =>
        /\ users' = users
        /\ \A u \in UserIds, i \in Isbns :
            checkout_book(u, i) =>
                LET ok == /\ RecordsWithIsbn(i) = {}
                          /\ Cardinality(RecordsOfUser(u)) < 3
                          /\ \E k \in BooksWithIsbn(i) : books[k].available
                IN  /\ ret' = ok
                    /\ ok => /\ checkouts' = Append(checkouts, [user_id |-> u, isbn |-> i])
                             /\ \E k \in BooksWithIsbn(i) :
                                   books' = [books EXCEPT ![k].available = FALSE]
                    /\ ~ok => UNCHANGED <<books, checkouts>>
        /\ \A i \in Isbns :
            checkin_book(i) =>
                /\ ret' = (RecordsWithIsbn(i) # {})
                /\ \A u \in UserIds :
                     Len(list_user_checkouts(checkouts', u)) =
                        Cardinality(RecordsOfUser(u) \ RecordsWithIsbn(i))]_vars

\* checkout_book has just succeeded for a borrower that the non-empty User
\* Registry does not hold
C14_Witness ==
    /\ lastOp = "checkout_book" /\ line = 59
    /\ users # <<>>
    /\ checkouts[Len(checkouts)].user_id \notin RegisteredIds

\* a file that this step has changed holds exactly the collection of its
\* manager, record for record
SavedIsLoadable ==
    /\ (booksFile' # booksFile) =>
        (Len(booksFile'.data) = Len(books') /\ load_books(booksFile') = books')
    /\ (usersFile' # usersFile) =>
        (Len(usersFile'.data) = Len(users') /\ load_users(usersFile') = users')
    /\ (checkoutsFile' # checkoutsFile) =>
        ( /\ Len(checkoutsFile'.data) = Len(checkouts')
          /\ load_checkouts(checkoutsFile') = checkouts' )

\* C15: a collection that is saved and loaded afresh from the same file comes
\* back with the same number of records, in the same order, with the same
\* field values (a Book's available flag included); a file that a save has
\* changed holds exactly the saved collection, not the old content plus it.
C15_RoundTrip ==
    /\ [](/\ load_books(save_books(books)) = books
          /\ load_users(save_users(users)) = users
          /\ load_checkouts(save_checkouts(checkouts)) = checkouts)
    /\ [][SavedIsLoadable]_vars

\* the three files have been rewritten several times and hold two Books, one
\* of them checked out, two Users and a record
C15_Witness ==
    /\ Len(booksFile.data) = 2 /\ Len(usersFile.data) = 2 /\ Len(checkoutsFile.data) = 1
    /\ \E k \in 1..Len(books) : ~books[k].available
    /\ \E k \in 1..Len(books) : books[k].available

\* what a constructor leaves, given the file f it loads and the collection
\* before and after: an empty collection for a missing file, ValueError and no
\* collection for a file that is not JSON
LoadOutcome(f, before, after) ==
    /\ ~f.exists => (ret' = TRUE /\ after = <<>>)
    /\ (f.exists /\ ~f.json) => (ret' = FALSE /\ line' = 47 /\ after = before)
    /\ ret' = FALSE => (f.exists /\ ~f.json)

\* C16: load_data of a missing file returns an empty collection without
\* error; load_data of a file that is not valid JSON raises ValueError and
\* returns no collection; these are the only outcomes for the two file states.
C16_LoadOutcomes ==
    [][ /\ (lastOp' = "BookManager") => LoadOutcome(booksFile, books, books')
        /\ (lastOp' = "UserManager") => LoadOutcome(usersFile, users, users')
        /\ (lastOp' = "CheckoutManager") =>
                LoadOutcome(checkoutsFile, checkouts, checkouts') ]_vars

\* the ledger file is not JSON and CheckoutManager has just failed to load it,
\* after BookManager loaded a missing file
C16_Witness ==
    /\ lastOp = "CheckoutManager" /\ ~ret /\ line = 47
    /\ checkoutsFile = BadFile /\ ~booksFile.exists

\* C18: after every operation of the three managers has returned, each file
\* holds the in-memory collection of its manager (a missing file standing for
\* the empty collection).
C18_FilesMatchMemory ==
    /\ load_books(booksFile) = books
    /\ load_users(usersFile) = users
    /\ load_checkouts(checkoutsFile) = checkouts

\* the Books / records with this isbn that a file holds
StoredBooksWithIsbn(f, i) ==
    {k \in 1..Len(load_books(f)) : load_books(f)[k].isbn = i}
StoredRecordsWithIsbn(f, i) ==
    {j \in 1..Len(load_checkouts(f)) : load_checkouts(f)[j].isbn = i}

\* C17: checkout_book and checkin_book write the Book file before the ledger
\* file and nothing is rolled back: when the process dies between the two
\* writes, the files and the state reloaded from them hold, after a checkout,
\* the Book with available=false and no CheckoutRecord, and after a checkin,
\* the Book with available=true and its CheckoutRecord.
C17_CrashBetweenWrites ==
    [][ /\ (lastOp' = "crash_in_checkout_book") =>
            \A u \in UserIds, i \in Isbns :
                checkout_book_crash(u, i) =>
                    /\ \E k \in StoredBooksWithIsbn(booksFile', i) :
                          ~load_books(booksFile')[k].available
                    /\ StoredRecordsWithIsbn(checkoutsFile', i) = {}
                    /\ \E k \in 1..Len(books') :
                          books'[k].isbn = i /\ ~books'[k].available
                    /\ \A j \in 1..Len(checkouts') : checkouts'[j].isbn # i
        /\ (lastOp' = "crash_in_checkin_book") =>
            \A i \in Isbns :
                checkin_book_crash(i) =>
                    /\ \E k \in StoredBooksWithIsbn(booksFile', i) :
                          load_books(booksFile')[k].available
                    /\ StoredRecordsWithIsbn(checkoutsFile', i) # {}
                    /\ \E k \in 1..Len(books') :
                          books'[k].isbn = i /\ books'[k].available
                    /\ \E j \in 1..Len(checkouts') : checkouts'[j].isbn = i ]_vars

\* the process has just died in a checkin: a Book is available although the
\* reloaded ledger still holds its record
C17_Witness ==
    /\ lastOp = "crash_in_checkin_book"
    /\ \E k \in 1..Len(books) :
         books[k].available /\ RecordsWithIsbn(books[k].isbn) # {}

\* C19: every rejection of checkout_book (at check.py:46 book already out,
\* :50 user at the cap, :61 book missing or unavailable) has no side effect:
\* the Book Registry, the ledger and both backing files are as before the call.
C19_RejectedCheckout ==
    [][ (lastOp' = "checkout_book" /\ ret' = FALSE) =>
            /\ line' \in {46, 50, 61}
            /\ books' = books
            /\ checkouts' = checkouts
            /\ booksFile' = booksFile
            /\ checkoutsFile' = checkoutsFile ]_vars

\* a checkout was rejected at the cap although an available Book was there
C19_Witness ==
    /\ lastOp = "checkout_book"
    /\ ~ret
    /\ line = 50
    /\ Cardinality(RecordsOfUser(OneUserId)) = MaxCheckoutsPerUser
    /\ \E k \in 1..Len(books) :
         books[k].available /\ RecordsWithIsbn(books[k].isbn) = {}

\* C20: checkin_book(isbn) with a CheckoutRecord for isbn but no Book with that
\* isbn in the Book Registry returns true, removes the record, persists the
\* ledger, and neither modifies nor re-saves the Book Registry.
C20_CheckinWithoutBook ==
    [][ (lastOp' = "checkin_book") =>
            \A i \in Isbns :
                (checkin_book(i) /\ RecordsWithIsbn(i) # {} /\ BooksWithIsbn(i) = {}) =>
                    /\ ret' = TRUE
                    /\ Len(checkouts') = Len(checkouts) - 1
                    /\ \A j \in 1..Len(checkouts') : checkouts'[j].isbn # i
                    /\ checkoutsFile'.exists
                    /\ load_checkouts(checkoutsFile') = checkouts'
                    /\ books' = books
                    /\ booksFile' = booksFile ]_vars

\* a checkin succeeded while the Book Registry holds no Book at all
C20_Witness ==
    /\ lastOp = "checkin_book"
    /\ ret
    /\ line = 81
    /\ books = <<>>
    /\ checkouts = <<>>

\* the state reloaded after a checkin died between its two writes: the Book
\* with this isbn is available and its CheckoutRecord is still in the ledger
AfterCheckinCrash(i) ==
    /\ lastOp = "crash_in_checkin_book"
    /\ \E k \in BooksWithIsbn(i) : books[k].available
    /\ RecordsWithIsbn(i) # {}

\* C21: in the state reloaded after a crash between the two writes of
\* checkin_book (Book available, CheckoutRecord still present), checkout_book
\* of that isbn returns false, and a repeated checkin_book(isbn) returns true
\* and leaves the Book available with no record for the isbn, in memory and
\* in the files.
C21_CheckinCrashRecovers ==
    [][ \A i \in Isbns :
          AfterCheckinCrash(i) =>
            /\ \A u \in UserIds :
                  checkout_book(u, i) =>
                    /\ ret' = FALSE
                    /\ books' = books
                    /\ checkouts' = checkouts
            /\ checkin_book(i) =>
                  /\ ret' = TRUE
                  /\ \E k \in 1..Len(books') :
                        books'[k].isbn = i /\ books'[k].available
                  /\ \A k \in 1..Len(books') :
                        (books'[k].isbn = i) => books'[k].available
                  /\ \A j \in 1..Len(checkouts') : checkouts'[j].isbn # i
                  /\ \A k \in StoredBooksWithIsbn(booksFile', i) :
                        load_books(booksFile')[k].available
                  /\ StoredRecordsWithIsbn(checkoutsFile', i) = {} ]_vars

\* a checkout was refused for a Book that is available and whose record a
\* crashed checkin left in the ledger
C21_Witness ==
    /\ lastOp = "checkout_book"
    /\ ~ret
    /\ line = 46
    /\ \E k \in 1..Len(books) :
         books[k].available /\ RecordsWithIsbn(books[k].isbn) # {}

\* C22: in every state reached without crashes from empty collections, every
\* CheckoutRecord in the ledger refers to a Book of the Book Registry: its
\* isbn is the isbn of some Book.
C22_RecordsHaveBooks ==
    \A j \in 1..Len(checkouts) : BooksWithIsbn(checkouts[j].isbn) # {}

\* the Books that stay in the collection keep their available flag: the Book
\* at each position for add_book and update_book, the Book of each remaining
\* isbn for delete_book
FlagsKept ==
    /\ (lastOp' \in {"add_book", "update_book"}) =>
          /\ Len(books') >= Len(books)
          /\ \A k \in 1..Len(books) : books'[k].available = books[k].available
    /\ (lastOp' = "delete_book") =>
          \A k2 \in 1..Len(books') :
             \E k \in 1..Len(books) :
                /\ books[k].isbn = books'[k2].isbn
                /\ books[k].available = books'[k2].available

\* C23: add_book, update_book and delete_book never change the available flag
\* of a Book that remains in the collection and never change the ledger;
\* add_user, update_user and delete_user never change the Book Registry or the
\* ledger; find_book, find_book_by_isbn, find_user and list_user_checkouts
\* change nothing.
C23_Frame ==
    [][ /\ (lastOp' \in {"add_book", "update_book", "delete_book"}) =>
              /\ FlagsKept
              /\ checkouts' = checkouts
              /\ checkoutsFile' = checkoutsFile
        /\ (lastOp' \in {"add_user", "update_user", "delete_user"}) =>
              /\ books' = books
              /\ booksFile' = booksFile
              /\ checkouts' = checkouts
              /\ checkoutsFile' = checkoutsFile
        /\ (lastOp' \in {"find_book", "find_book_by_isbn", "find_user",
                         "list_user_checkouts"}) =>
              /\ books' = books
              /\ users' = users
              /\ checkouts' = checkouts
              /\ booksFile' = booksFile
              /\ usersFile' = usersFile
              /\ checkoutsFile' = checkoutsFile ]_vars

\* update_book has just changed the isbn of a Book that is out: the Book is
\* still unavailable and the ledger still holds the record of the old isbn
C23_Witness ==
    /\ lastOp = "update_book"
    /\ ret
    /\ Len(checkouts) = 1
    /\ \E k \in 1..Len(books) :
         ~books[k].available /\ RecordsWithIsbn(books[k].isbn) = {}

====
